---- MODULE Spec2Model ----
(***************************************************************************)
(* A model of the two scripts of the repository:                           *)
(*   src/src/fact_check_auditor.py  FactCheckAuditor (load, extract,       *)
(*                                  classify, report, history log)         *)
(*   src/src/file_scanner.py        format_size and scan_directory         *)
(*                                                                         *)
(* Text is a sequence of tokens.  A token is an indivisible piece of text: *)
(* a lead-in phrase, a value, one white-space character (" " or "\n") or   *)
(* the period ".".  A file is <<>> when it does not exist and <<text>>     *)
(* when it exists with content text; an optional value (Python's None) is  *)
(* written the same way.                                                   *)
(*                                                                         *)
(* The failures modelled are those of the files: a missing or unreadable   *)
(* input, an open or a write of the report or of the log that raises.      *)
(* Console output (print) is taken to succeed, and the history log has a   *)
(* single writer.  The time datetime.now() gives a run is the number of    *)
(* the run.                                                                *)
(***************************************************************************)
EXTENDS Integers, Sequences, FiniteSets, TLC

\* ------------------------------------------------------------------ bounds

\* The number of times run() is invoked in one behaviour.
MaxRuns == 2

\* ------------------------------------------------------------- text helpers

None == <<>>

Some(v) == <<v>>

Min(S) == CHOOSE x \in S : \A y \in S : x <= y

Max(S) == CHOOSE x \in S : \A y \in S : x >= y

\* str.lower() on one token: the tokens of the model that hold an upper-case
\* letter, each with its lower-cased text; every other token is unchanged.
LowerTok(t) ==
    CASE t = "The" -> "the"
      [] t = "Deadline is" -> "deadline is"
      [] t = "Lead Engineer is" -> "lead engineer is"
      [] t = "Budget is" -> "budget is"
      [] t = "Risk Level:" -> "risk level:"
      [] t = "January 15th" -> "january 15th"
      [] t = "March 3rd" -> "march 3rd"
      [] t = "Sarah Chen" -> "sarah chen"
      [] t = "SARAH CHEN" -> "sarah chen"
      [] t = "Low" -> "low"
      [] t = "High" -> "high"
      [] t = "HIGH" -> "high"
      [] t = "MEDIUM" -> "medium"
      [] t = "Medium" -> "medium"
      [] t = "Critical" -> "critical"
      [] t = "Mismatches Found: None" -> "mismatches found: none"
      [] t = "AUDIT HISTORY LOG" -> "audit history log"
      [] OTHER -> t

\* str.upper() on one token.
UpperTok(t) ==
    CASE t = "medium" -> "MEDIUM"
      [] t = "high" -> "HIGH"
      [] t = "low" -> "LOW"
      [] t = "critical" -> "CRITICAL"
      [] t = "january 15th" -> "JANUARY 15TH"
      [] t = "risk level:" -> "RISK LEVEL:"
      [] OTHER -> t

Lower(s) == [i \in 1..Len(s) |-> LowerTok(s[i])]

Upper(s) == [i \in 1..Len(s) |-> UpperTok(s[i])]

IsSpace(t) == t \in {" ", "\n"}

\* str.strip(): the text without its leading and trailing white space.
Strip(s) ==
    LET keep == {i \in 1..Len(s) : ~IsSpace(s[i])}
    IN  IF keep = {} THEN <<>> ELSE SubSeq(s, Min(keep), Max(keep))

\* The regular expression [^.]+ applied (greedily) at position p of s: the
\* index of the last token it consumes, p - 1 when it cannot consume one.
NonPeriodEnd(s, p) ==
    LET stops == {j \in p..Len(s) : s[j] = "."}
    IN  IF stops = {} THEN Len(s) ELSE Min(stops) - 1

\* \s* applied (greedily) at position p of s: the index of the last token it
\* consumes, p - 1 when there is no white space at p.
SpaceEnd(s, p) ==
    LET stops == {j \in p..Len(s) : ~IsSpace(s[j])}
    IN  IF stops = {} THEN Len(s) ELSE Min(stops) - 1

\* re.search(lead + r' ([^.]+)', s): the lead-in phrase, one literal blank and
\* the captured group; the left-most match, None when there is none.
SearchPhrase(lead, s) ==
    LET hits == {i \in 1..Len(s) :
                    /\ s[i] = lead
                    /\ i + 1 <= Len(s)
                    /\ s[i + 1] = " "
                    /\ NonPeriodEnd(s, i + 2) >= i + 2}
    IN  IF hits = {} THEN None
        ELSE LET i == Min(hits)
             IN  Some(SubSeq(s, i + 2, NonPeriodEnd(s, i + 2)))

\* re.search(r'risk level:\s*([^.]+)', s): \s* is greedy and gives white space
\* back, one token at a time, until the group can consume at least one token.
SearchRisk(s) ==
    LET starts(i) == {k \in i..SpaceEnd(s, i + 1) : NonPeriodEnd(s, k + 1) >= k + 1}
        hits == {i \in 1..Len(s) : s[i] = "risk level:" /\ starts(i) # {}}
    IN  IF hits = {} THEN None
        ELSE LET i == Min(hits)
                 k == Max(starts(i))
             IN  Some(SubSeq(s, k + 1, NonPeriodEnd(s, k + 1)))

\* ------------------------------------------------------- FactCheckAuditor

\* The categories in the order the expected_values dict is iterated.
Categories == <<"Deadline", "Lead", "Budget", "Risk Level">>

expected_values ==
    [c \in {"Deadline", "Lead", "Budget", "Risk Level"} |->
        CASE c = "Deadline" -> <<"January 15th">>
          [] c = "Lead" -> <<"Sarah Chen">>
          [] c = "Budget" -> <<"$50,000">>
          [] c = "Risk Level" -> <<"Low">>]

source_file == "project_specs.txt"

\* extract_value: None when self.content is None or empty, else the stripped group of the
\* category's pattern over the lower-cased content.
extract_value(content, category) ==
    IF content = None \/ content[1] = <<>> THEN None
    ELSE LET content_lower == Lower(content[1])
             match == CASE category = "Deadline" -> SearchPhrase("deadline is", content_lower)
                        [] category = "Lead" -> SearchPhrase("lead engineer is", content_lower)
                        [] category = "Budget" -> SearchPhrase("budget is", content_lower)
                        [] category = "Risk Level" -> SearchRisk(content_lower)
                        [] OTHER -> None
         IN  IF match # None THEN Some(Strip(match[1])) ELSE None

\* A classifier that escalates a medium or high value of any category.
Classify_AnyCategory(category, expected, actual) ==
    IF actual = None THEN "DATA MISSING"
    ELSE IF Lower(actual[1]) = Lower(expected) THEN "MATCH"
    ELSE IF Lower(actual[1]) \in {<<"medium">>, <<"high">>}
         THEN "CRITICAL WARNING"
         ELSE "MISMATCH"

\* A classifier that compares the values as they are, case included.
Classify_CaseSensitive(category, expected, actual) ==
    IF actual = None THEN "DATA MISSING"
    ELSE IF actual[1] = expected THEN "MATCH"
    ELSE IF category = "Risk Level" /\ Lower(actual[1]) \in {<<"medium">>, <<"high">>}
         THEN "CRITICAL WARNING"
         ELSE "MISMATCH"

\* The status audit() gives one category.
Classify(category, expected, actual) ==
    IF actual = None THEN "DATA MISSING"
    ELSE IF Lower(actual[1]) = Lower(expected) THEN "MATCH"
    ELSE IF category = "Risk Level" /\ Lower(actual[1]) \in {<<"medium">>, <<"high">>}
         THEN "CRITICAL WARNING"
         ELSE "MISMATCH"

\* audit(): one result per entry of expected_values, in its order.
audit(content) ==
    [i \in 1..Len(Categories) |->
        LET category == Categories[i]
            expected == expected_values[category]
            actual == extract_value(content, category)
        IN  [category |-> category,
             expected |-> expected,
             actual |-> actual,
             status |-> Classify(category, expected, actual)]]

\* "=" * 60 and "-" * 60.
Rule60 == "============================================================"

Dash60 == "------------------------------------------------------------"

RECURSIVE Concat(_)
\* The concatenation of a sequence of texts.
Concat(ss) == IF ss = <<>> THEN <<>> ELSE Head(ss) \o Concat(Tail(ss))

RECURSIVE Join(_)
\* '\n'.join(lines)
Join(lines) ==
    IF lines = <<>> THEN <<>>
    ELSE IF Len(lines) = 1 THEN lines[1]
    ELSE lines[1] \o <<"\n">> \o Join(Tail(lines))

\* [r for r in results if r['status'] == status]
WithStatus(results, status) == SelectSeq(results, LAMBDA r : r.status = status)

\* A count that takes a critical warning for a mismatch as well.
CountStatus_Loose(results, status) ==
    Len(SelectSeq(results, LAMBDA r :
            r.status = status \/ (status = "MISMATCH" /\ r.status = "CRITICAL WARNING")))

\* sum(1 for r in results if r['status'] == status)
CountStatus(results, status) == Len(WithStatus(results, status))

\* The text generate_report writes (report_content).
report_content(results) ==
    LET critical_warnings == WithStatus(results, "CRITICAL WARNING")
        matches == CountStatus(results, "MATCH")
        mismatches == CountStatus(results, "MISMATCH")
        missing == CountStatus(results, "DATA MISSING")
        critical == CountStatus(results, "CRITICAL WARNING")
        header == << <<Rule60>>, <<"FACT-CHECK AUDIT REPORT">>, <<Rule60>>,
                     <<"Source File: ", source_file>>,
                     <<"Report Generated: ", "fact_check_auditor.py">>,
                     <<Rule60>>, <<>> >>
        warnings ==
            IF critical_warnings = <<>> THEN <<>>
            ELSE << <<"!!! CRITICAL WARNINGS DETECTED !!!">>, <<Rule60>> >>
                 \o Concat([i \in 1..Len(critical_warnings) |->
                        LET w == critical_warnings[i]
                        IN  << <<"<warning sign>  ", w.category, ": ">> \o Upper(w.actual[1]),
                               <<"    Expected: ">> \o w.expected >>])
                 \o << <<Rule60>>, <<>> >>
        validation ==
            << <<"VALIDATION RESULTS:">>, <<Dash60>> >>
            \o Concat([i \in 1..Len(results) |->
                   LET r == results[i]
                   IN  << <<"\n", "Category: ", r.category>>,
                          <<"Expected Value: ">> \o r.expected,
                          IF r.actual # None
                              THEN <<"Actual Value: ">> \o r.actual[1]
                              ELSE <<"Actual Value: NOT FOUND">>,
                          <<"Status: ", r.status>>,
                          <<Dash60>> >>])
        summary ==
            << <<>>, <<"SUMMARY:">>,
               <<"  MATCH: ", ToString(matches)>>,
               <<"  MISMATCH: ", ToString(mismatches)>>,
               <<"  CRITICAL WARNING: ", ToString(critical)>>,
               <<"  DATA MISSING: ", ToString(missing)>>,
               <<>>, <<Rule60>> >>
    IN  Join(header \o warnings \o validation \o summary)

\* An else branch that does not look at the critical warnings.
NoMismatchLines_Unguarded(critical_warnings) == << <<"Mismatches Found: None">> >>

\* The else branch of "if mismatches": the line is added only when there is
\* no critical warning either.
NoMismatchLines(critical_warnings) ==
    IF critical_warnings = <<>> THEN << <<"Mismatches Found: None">> >> ELSE <<>>

\* The lines of one log entry (log_entry), for the results and the timestamp.
log_entry(results, timestamp) ==
    LET matches == Len(WithStatus(results, "MATCH"))
        mismatches == WithStatus(results, "MISMATCH")
        missing == WithStatus(results, "DATA MISSING")
        critical_warnings == WithStatus(results, "CRITICAL WARNING")
        top == << <<Dash60>>, <<"AUDIT RUN: ", timestamp>>,
                  <<"Total Matches: ", ToString(matches)>> >>
        crit ==
            IF critical_warnings = <<>> THEN <<>>
            ELSE << <<"<warning sign>  CRITICAL WARNINGS: ", ToString(Len(critical_warnings))>> >>
                 \o [i \in 1..Len(critical_warnings) |->
                        LET c == critical_warnings[i]
                        IN  <<"  - ", c.category, ": Expected '">> \o c.expected
                            \o <<"', Found '">> \o Upper(c.actual[1]) \o <<"'">>]
        mism ==
            IF mismatches # <<>>
            THEN << <<"Mismatches Found: ", ToString(Len(mismatches))>> >>
                 \o [i \in 1..Len(mismatches) |->
                        LET m == mismatches[i]
                        IN  <<"  - ", m.category, ": Expected '">> \o m.expected
                            \o <<"', Found '">> \o m.actual[1] \o <<"'">>]
            ELSE NoMismatchLines(critical_warnings)
        miss ==
            IF missing = <<>> THEN <<>>
            ELSE << <<"Data Missing: ", ToString(Len(missing))>> >>
                 \o [i \in 1..Len(missing) |->
                        LET m == missing[i]
                        IN  <<"  - ", m.category, ": ">> \o m.expected]
    IN  top \o crit \o mism \o miss \o << <<Dash60>>, <<>> >>

\* log_content = '\n'.join(log_entry)
log_content(results, timestamp) == Join(log_entry(results, timestamp))

\* The header banner written to a new history log.
Banner == <<Rule60, "\n", "AUDIT HISTORY LOG", "\n", Rule60, "\n", "\n">>

\* datetime.now().strftime(...): the time of the n-th run.
Timestamp(n) == ToString(n)

\* --------------------------------------------------------------- the inputs

\* Sentences of project_specs.txt that agree with the expected values.
DeadlineMatch == <<"The", " ", "Deadline is", " ", "January 15th", ".", " ">>

LeadMatch == <<"The", " ", "lead engineer is", " ", "SARAH CHEN", ".", " ">>

BudgetMatch == <<"The", " ", "budget is", " ", "$50,000", ".", " ">>

RiskMatch == <<"Risk Level:", " ", "Low", ".">>

\* What project_specs.txt may say about each category: nothing, or a sentence.
DeadlineTexts == {<<>>, DeadlineMatch, <<"The", " ", "deadline is", " ", "HIGH", ".", " ">>}

LeadTexts == {<<>>, LeadMatch}

BudgetTexts == {BudgetMatch, <<"The", " ", "budget is", " ", "$75,000", ".", "\n">>}

RiskTexts ==
    { <<>>,
      RiskMatch,
      <<"Risk Level:", " ", "High", ".">>,
      <<"Risk Level:", "MEDIUM", ".">>,
      <<"Risk Level:", " ", "Critical", ".">> }

\* The example of the documentation.
ExampleText ==
    <<"The", " ", "deadline is", " ", "March 3rd", ".", " ",
      "The", " ", "lead engineer is", " ", "Sarah Chen", ".", " ",
      "The", " ", "budget is", " ", "$50,000", ".", " ",
      "Risk Level:", " ", "High", ".">>

\* Contents that exercise the patterns: the empty file, a pattern with nothing
\* or only white space to capture, a text with no period, a value that spans
\* lines and holds the text of a log line and of the banner.
OddTexts ==
    { <<>>,
      <<"Risk Level:", " ", " ", ".">>,
      <<"Risk Level:", ".", "deadline is", " ", ".", "budget is", "\n", "$50,000", ".">>,
      <<"deadline is", " ", "January 15th", " ", "Risk Level:", "\n", "Medium">>,
      <<"lead engineer is", " ", "Sarah Chen", "\n", "Mismatches Found: None", "\n",
        "AUDIT HISTORY LOG", "\n", "x", ".">>,
      <<"lead engineer is", " ", "Sarah Chen", ".", "budget is", " ", "$50,000", ".",
        "deadline is", " ", "January 15th", ".", "Risk Level:", " ", "Low", "\n",
        "Mismatches Found: None", "\n", "x", ".">> }

\* The contents project_specs.txt starts with.
Contents ==
    { d \o LeadMatch \o BudgetMatch \o r : d \in DeadlineTexts, r \in RiskTexts }
    \cup { DeadlineMatch \o l \o b \o RiskMatch : l \in LeadTexts, b \in BudgetTexts }
    \cup {ExampleText} \cup OddTexts

\* The contents the file is rewritten with between two runs.
EditContents == {ExampleText}

\* A report and a history log left by earlier use.
OldReport == <<"FACT-CHECK AUDIT REPORT", "\n", "old">>

OldLog == Banner \o <<Dash60, "\n", "AUDIT RUN: ", "0", "\n", Dash60, "\n">>

\* What a write that fails part-way leaves of the n tokens it was given:
\* nothing, or the first half.
PartialLens(n) == {0, n \div 2}


\* ------------------------------------------------------------ file_scanner

Units == <<"B", "KB", "MB", "GB", "TB">>

\* The hundredths with the fraction cut off instead of rounded.
Hundredths_Truncated(n, d) == (100 * n) \div d

\* f"{x:.2f}" for x = n / d, in hundredths: the nearest hundredth, and the
\* even one when x lies half-way between two (n / d is exact in a float, d
\* being a power of two).
Hundredths(n, d) ==
    LET q == (100 * n) \div d
        r == (100 * n) % d
    IN  IF 2 * r > d \/ (2 * r = d /\ q % 2 = 1) THEN q + 1 ELSE q

\* The text of h hundredths with two decimals.
TwoDecimals(h) ==
    <<ToString(h \div 100), ".",
      IF h % 100 < 10 THEN "0" \o ToString(h % 100) ELSE ToString(h % 100)>>

RECURSIVE FormatLoop(_, _, _, _)
\* The loop of format_size at unit number u: whole is the integer part of
\* size_bytes after u - 1 divisions by 1024.0, which is n / d.
FormatLoop(n, d, whole, u) ==
    IF u > Len(Units) THEN TwoDecimals(Hundredths(n, d)) \o <<" ", "PB">>
    ELSE IF whole < 1024 THEN TwoDecimals(Hundredths(n, d)) \o <<" ", Units[u]>>
    ELSE FormatLoop(n, d * 1024, whole \div 1024, u + 1)

format_size(size_bytes) == FormatLoop(size_bytes, 1, size_bytes, 1)

\* The names a directory entry may have, and name.lower() of each.
Names == {"B.txt", "a.bin", "c.log"}

NameLower(name) == IF name = "B.txt" THEN "b.txt" ELSE name

\* The lower-cased names in the order of Python's string comparison.
LowerOrder == <<"a.bin", "b.txt", "c.log">>

LowerRank(lname) == CHOOSE i \in 1..Len(LowerOrder) : LowerOrder[i] = lname

\* key=lambda x: x.name.lower()
SortKey(name) == LowerRank(NameLower(name))

\* The sizes a file of the directory may have.
Sizes == {0, 500, 1023, 1024, 2048, 1048575, 1048576}

\* What a name may be in the directory: a sub-directory, a regular file of a
\* size whose stat() succeeds, or a regular file whose stat() raises.
EntryKinds ==
    {[is_file |-> FALSE, stat_ok |-> TRUE, st_size |-> 0]}
    \cup {[is_file |-> TRUE, stat_ok |-> TRUE, st_size |-> z] : z \in Sizes}
    \cup {[is_file |-> TRUE, stat_ok |-> FALSE, st_size |-> 0]}

\* The paths scanned: a directory holding any set of names, each of any kind,
\* a path that does not exist and a path that is not a directory.
Directories ==
    {[exists |-> TRUE, is_dir |-> TRUE, entries |-> e] :
        e \in UNION {[S -> EntryKinds] : S \in SUBSET Names}}
    \cup {[exists |-> FALSE, is_dir |-> FALSE, entries |-> <<>>],
          [exists |-> TRUE, is_dir |-> FALSE, entries |-> <<>>]}

\* files.sort(key=...) of the regular files, which iterdir gives in any order.
SortedFiles(entries) ==
    LET regular == {n \in DOMAIN entries : entries[n].is_file}
    IN  CHOOSE f \in [1..Cardinality(regular) -> regular] :
            /\ \A i, j \in DOMAIN f : i < j => SortKey(f[i]) < SortKey(f[j])

\* ---------------------------------------------------------------- the state

VARIABLES
    srcFile,      \* project_specs.txt
    reportFile,   \* audit_report.txt
    historyLog,   \* audit_history.log
    pc,           \* where run() is: idle, audit, report, report_write, log, log_write
    runs,         \* the number of run() calls so far
    content,      \* self.content
    results,      \* the results of audit() in this run
    calls,        \* the methods run() has called in this run, in order
    loadRet,      \* what load_file returned in this run
    reportRet,    \* what generate_report returned in this run
    logRet,       \* what log_to_history returned in this run
    runRet,       \* what the last run() returned
    logMode,      \* the mode log_to_history opened the log with
    reportBefore, \* audit_report.txt as it was when generate_report was called
    logAtStart,   \* audit_history.log as it was before the first run
    logFailed,    \* whether a log_to_history has returned False
    logged,       \* the log_content of every log_to_history that returned True
    directory,    \* scan_directory: the path scanned and what it holds
    scanPc,       \* where scan_directory is: start, loop, done
    files,        \* scan_directory: the sorted regular files
    idx,          \* scan_directory: the file the loop is at
    total_size,   \* scan_directory: the sum of the sizes read so far
    out           \* scan_directory: the lines printed

auditVars == <<srcFile, reportFile, historyLog, pc, runs, content, results, calls,
               loadRet, reportRet, logRet, runRet, logMode, reportBefore,
               logAtStart, logFailed, logged>>

scanVars == <<directory, scanPc, files, idx, total_size, out>>

vars == <<auditVars, scanVars>>

\* The auditor as constructed, with the files of the working directory: the
\* input file, and the report and the history log (both there or both not).
AuditInit(sources, outputs) ==
    /\ srcFile \in sources
    /\ \E o \in outputs : reportFile = o[1] /\ historyLog = o[2]
    /\ pc = "idle"
    /\ runs = 0
    /\ content = None
    /\ results = <<>>
    /\ calls = <<>>
    /\ loadRet = "none"
    /\ reportRet = "none"
    /\ logRet = "none"
    /\ runRet = "none"
    /\ logMode = "none"
    /\ reportBefore = None
    /\ logAtStart = historyLog
    /\ logFailed = FALSE
    /\ logged = <<>>

\* scan_directory about to be called on one of the directories dirs.
ScanInit(dirs) ==
    /\ directory \in dirs
    /\ scanPc = "start"
    /\ files = <<>>
    /\ idx = 1
    /\ total_size = 0
    /\ out = <<>>

Init ==
    /\ AuditInit({None} \cup {Some(c) : c \in Contents},
                 {<<None, None>>, <<Some(OldReport), Some(OldLog)>>})
    /\ ScanInit({[exists |-> FALSE, is_dir |-> FALSE, entries |-> <<>>]})

\* run() after load_file with the return value ignored.
RunAfterLoad_Ignored(loaded) ==
    /\ pc' = "audit"
    /\ runRet' = "none"

\* if not self.load_file(): return False
RunAfterLoad(loaded) ==
    IF loaded THEN pc' = "audit" /\ runRet' = "none"
              ELSE pc' = "idle" /\ runRet' = "False"

\* run() up to its first branch: load_file fails when the file does not exist
\* or when reading it raises.
load_file ==
    /\ pc = "idle"
    /\ runs < MaxRuns
    /\ runs' = runs + 1
    /\ calls' = <<"load_file">>
    /\ reportRet' = "none"
    /\ logRet' = "none"
    /\ logMode' = "none"
    /\ results' = <<>>
    /\ \/ /\ srcFile = None
          /\ loadRet' = "False"
          /\ RunAfterLoad(FALSE)
          /\ UNCHANGED content
       \/ /\ srcFile # None
          /\ loadRet' = "False"
          /\ RunAfterLoad(FALSE)
          /\ UNCHANGED content
       \/ /\ srcFile # None
          /\ content' = Some(srcFile[1])
          /\ loadRet' = "True"
          /\ RunAfterLoad(TRUE)
    /\ UNCHANGED <<srcFile, reportFile, historyLog, reportBefore, logAtStart,
                   logFailed, logged>>
    /\ UNCHANGED scanVars

\* results = self.audit()
Audit ==
    /\ pc = "audit"
    /\ results' = audit(content)
    /\ calls' = Append(calls, "audit")
    /\ pc' = "report"
    /\ UNCHANGED <<srcFile, reportFile, historyLog, runs, content, loadRet,
                   reportRet, logRet, runRet, logMode, reportBefore, logAtStart,
                   logFailed, logged>>
    /\ UNCHANGED scanVars

\* run() after generate_report when a failed report ends the run.
RunAfterReport_Abort(ok) ==
    IF ok THEN pc' = "log" /\ UNCHANGED runRet
          ELSE pc' = "idle" /\ runRet' = "False"

\* self.generate_report(results) in run(): the return value is not looked at.
RunAfterReport(ok) ==
    /\ pc' = "log"
    /\ UNCHANGED runRet

\* An open that keeps what the file holds (mode 'a').
ReportOpened_Append(file) == IF file = None THEN Some(<<>>) ELSE file

\* What open(self.report_file, 'w') leaves of the file: it exists and is empty.
ReportOpened(file) == Some(<<>>)

\* generate_report up to open(self.report_file, 'w'): the file is created or
\* truncated when the open succeeds, and untouched when it raises.
generate_report_open ==
    /\ pc = "report"
    /\ calls' = Append(calls, "generate_report")
    /\ reportBefore' = reportFile
    /\ \/ /\ reportFile' = ReportOpened(reportFile)
          /\ pc' = "report_write"
          /\ UNCHANGED <<reportRet, runRet>>
       \/ /\ reportRet' = "False"
          /\ RunAfterReport(FALSE)
          /\ UNCHANGED reportFile
    /\ UNCHANGED <<srcFile, historyLog, runs, content, results, loadRet, logRet,
                   logMode, logAtStart, logFailed, logged>>
    /\ UNCHANGED scanVars

\* f.write(report_content) and the close of the file: all of the text, or a
\* part of it when the write raises.
generate_report_write ==
    /\ pc = "report_write"
    /\ LET text == report_content(results)
       IN  \/ /\ reportFile' = Some(reportFile[1] \o text)
              /\ reportRet' = "True"
              /\ RunAfterReport(TRUE)
           \/ /\ \E n \in PartialLens(Len(text)) :
                    reportFile' = Some(reportFile[1] \o SubSeq(text, 1, n))
              /\ reportRet' = "False"
              /\ RunAfterReport(FALSE)
    /\ UNCHANGED <<srcFile, historyLog, runs, content, results, calls, loadRet,
                   logRet, logMode, reportBefore, logAtStart, logFailed, logged>>
    /\ UNCHANGED scanVars

\* A mode that does not depend on the file.
OpenMode_AlwaysW(log) == "w"

\* mode = 'a' if self.history_log.exists() else 'w'
OpenMode(log) == IF log # None THEN "a" ELSE "w"

\* What open(self.history_log, mode) leaves of the file: 'w' creates it empty
\* or truncates it, 'a' creates it when missing and keeps what it holds.
Opened(log, mode) == IF mode = "w" \/ log = None THEN Some(<<>>) ELSE log

\* Data with the banner in every mode.
LogData_BannerAlways(mode, res, timestamp) == Banner \o log_content(res, timestamp)

\* What log_to_history writes to the opened file: the banner in mode 'w', then
\* the entry.
LogData(mode, res, timestamp) ==
    (IF mode = "w" THEN Banner ELSE <<>>) \o log_content(res, timestamp)

\* self.log_to_history(results) in run(), then "Audit complete!" and return True.
RunAfterLog(ok) ==
    /\ pc' = "idle"
    /\ runRet' = "True"

\* log_to_history up to open(self.history_log, mode).
log_to_history_open ==
    /\ pc = "log"
    /\ calls' = Append(calls, "log_to_history")
    /\ LET mode == OpenMode(historyLog)
       IN  \/ /\ historyLog' = Opened(historyLog, mode)
              /\ logMode' = mode
              /\ pc' = "log_write"
              /\ UNCHANGED <<logRet, runRet, logFailed>>
           \/ /\ logRet' = "False"
              /\ logFailed' = TRUE
              /\ RunAfterLog(FALSE)
              /\ UNCHANGED <<historyLog, logMode>>
    /\ UNCHANGED <<srcFile, reportFile, runs, content, results, loadRet,
                   reportRet, reportBefore, logAtStart, logged>>
    /\ UNCHANGED scanVars

\* The writes of log_to_history and the close of the file: all of the data, or
\* a part of it when a write raises.
log_to_history_write ==
    /\ pc = "log_write"
    /\ LET data == LogData(logMode, results, Timestamp(runs))
       IN  \/ /\ historyLog' = Some(historyLog[1] \o data)
              /\ logRet' = "True"
              /\ logged' = Append(logged, log_content(results, Timestamp(runs)))
              /\ RunAfterLog(TRUE)
              /\ UNCHANGED logFailed
           \/ /\ \E n \in PartialLens(Len(data)) :
                    historyLog' = Some(historyLog[1] \o SubSeq(data, 1, n))
              /\ logRet' = "False"
              /\ logFailed' = TRUE
              /\ RunAfterLog(FALSE)
              /\ UNCHANGED logged
    /\ UNCHANGED <<srcFile, reportFile, runs, content, results, calls, loadRet,
                   reportRet, logMode, reportBefore, logAtStart>>
    /\ UNCHANGED scanVars

\* Between two runs the input file is rewritten or removed (by its owner, not
\* by the program).
EditSource ==
    /\ pc = "idle"
    /\ runs \in 1..(MaxRuns - 1)
    /\ srcFile' \in ({None} \cup {Some(c) : c \in EditContents}) \ {srcFile}
    /\ UNCHANGED <<reportFile, historyLog, pc, runs, content, results, calls,
                   loadRet, reportRet, logRet, runRet, logMode, reportBefore,
                   logAtStart, logFailed, logged>>
    /\ UNCHANGED scanVars

Next ==
    \/ load_file
    \/ Audit
    \/ generate_report_open
    \/ generate_report_write
    \/ log_to_history_open
    \/ log_to_history_write
    \/ EditSource

\* The auditor: up to MaxRuns runs of run() over the files of one directory.
Spec == Init /\ [][Next]_vars

\* ------------------------------------------------------------ scan_directory

\* A line of the listing: the name, then the size or "Error".
ListingLine(name, size_text) == <<name, " ">> \o size_text

\* scan_directory up to the loop: the checks of the path, the sorted list of
\* the regular files and the header.
scan_directory_start ==
    /\ scanPc = "start"
    /\ IF ~directory.exists
       THEN /\ out' = << <<"Error: Directory '", ".", "' does not exist.">> >>
            /\ scanPc' = "done"
            /\ UNCHANGED files
       ELSE IF ~directory.is_dir
       THEN /\ out' = << <<"Error: '", ".", "' is not a directory.">> >>
            /\ scanPc' = "done"
            /\ UNCHANGED files
       ELSE /\ files' = SortedFiles(directory.entries)
            /\ IF files' = <<>>
               THEN /\ out' = << <<"Scanning: ", ".">>,
                                 <<"No files found in this directory.">> >>
                    /\ scanPc' = "done"
               ELSE /\ out' = << <<"Scanning: ", ".">>, <<"File Name", " ", "Size">> >>
                    /\ scanPc' = "loop"
    /\ UNCHANGED <<directory, idx, total_size>>
    /\ UNCHANGED auditVars

\* One turn of "for file in files": the size is added and printed, or "Error"
\* is printed when stat() raises.
scan_directory_file ==
    /\ scanPc = "loop"
    /\ idx <= Len(files)
    /\ LET file == files[idx]
           size == directory.entries[file].st_size
       IN  IF directory.entries[file].stat_ok
           THEN /\ total_size' = total_size + size
                /\ out' = Append(out, ListingLine(file, format_size(size)))
           ELSE /\ out' = Append(out, ListingLine(file, <<"Error">>))
                /\ UNCHANGED total_size
    /\ idx' = idx + 1
    /\ UNCHANGED <<directory, scanPc, files>>
    /\ UNCHANGED auditVars

\* After the loop: the total and the number of files.
scan_directory_total ==
    /\ scanPc = "loop"
    /\ idx > Len(files)
    /\ out' = out \o << ListingLine("Total:", format_size(total_size)),
                        <<"Total files: ", ToString(Len(files))>> >>
    /\ scanPc' = "done"
    /\ UNCHANGED <<directory, files, idx, total_size>>
    /\ UNCHANGED auditVars

InitScan ==
    /\ AuditInit({None}, {<<None, None>>})
    /\ ScanInit(Directories)

NextScan ==
    \/ scan_directory_start
    \/ scan_directory_file
    \/ scan_directory_total

\* The scanner: one call of scan_directory on any of the directories.
SpecScan == InitScan /\ [][NextScan]_vars

\* ---------------------------------------------------------------- the claims

\* The lines of a text, as text.split('\n') gives them.
Lines(text) ==
    LET breaks == <<0>> \o SelectSeq([i \in 1..Len(text) |-> i], LAMBDA i : text[i] = "\n")
                  \o <<Len(text) + 1>>
    IN  [k \in 1..(Len(breaks) - 1) |-> SubSeq(text, breaks[k] + 1, breaks[k + 1] - 1)]

IsPrefix(a, b) == Len(a) <= Len(b) /\ SubSeq(b, 1, Len(a)) = a

Statuses == {"MATCH", "MISMATCH", "CRITICAL WARNING", "DATA MISSING"}

\* The number of results with a status, counted on the results themselves.
NumWithStatus(status) == Cardinality({i \in 1..Len(results) : results[i].status = status})

Audited == Len(calls) >= 2 /\ calls[2] = "audit"

Elevated == {<<"medium">>, <<"high">>}

\* C1: in the results of audit(), a value that is present and differs from
\* the expected one (case ignored) has status CRITICAL WARNING if and only if
\* the category is Risk Level and the lower-cased value is medium or high,
\* and has status MISMATCH in every other case.
C1_Escalation ==
    Audited =>
        \A i \in 1..Len(results) :
            LET r == results[i]
            IN  (r.actual # None /\ Lower(r.actual[1]) # Lower(r.expected)) =>
                    IF r.category = "Risk Level" /\ Lower(r.actual[1]) \in Elevated
                    THEN r.status = "CRITICAL WARNING"
                    ELSE r.status = "MISMATCH"

\* A run in which Deadline holds "high" and is a plain mismatch while Risk
\* Level holds "high" and is escalated.
C1_Witness ==
    /\ Audited
    /\ \E i, j \in 1..Len(results) :
          /\ results[i].category = "Deadline"
          /\ results[i].actual = Some(<<"high">>)
          /\ results[i].status = "MISMATCH"
          /\ results[j].category = "Risk Level"
          /\ results[j].actual = Some(<<"high">>)
          /\ results[j].status = "CRITICAL WARNING"

\* C2: audit() gives exactly one result per configured category, in order;
\* its status is DATA MISSING exactly when extraction from the loaded content
\* gave no value (so for every category when the content is empty), and
\* MATCH exactly when it gave a value equal to the expected one, case ignored.
C2_BaseClassification ==
    Audited =>
        /\ Len(results) = Len(Categories)
        /\ \A i \in 1..Len(results) :
              LET r == results[i]
                  found == extract_value(content, Categories[i])
              IN  /\ r.category = Categories[i]
                  /\ r.status \in Statuses
                  /\ r.status = "DATA MISSING" <=> found = None
                  /\ r.status = "MATCH" <=>
                        (found # None /\ Lower(found[1]) = Lower(expected_values[Categories[i]]))
                  /\ content = Some(<<>>) => r.status = "DATA MISSING"

\* A run with a value that matches only when case is ignored, and with a
\* category that is missing.
C2_Witness ==
    /\ Audited
    /\ \E i, j \in 1..Len(results) :
          /\ results[i].status = "MATCH"
          /\ results[i].actual # Some(results[i].expected)
          /\ results[j].status = "DATA MISSING"

\* The header lines of the entries of a history log, by their timestamps.
EntryStamps(text) ==
    LET headers == SelectSeq(Lines(text),
                       LAMBDA l : Len(l) = 2 /\ l[1] = "AUDIT RUN: " /\ l[2] # Dash60)
    IN  [k \in 1..Len(headers) |-> headers[k][2]]

\* C3: the history log is append-only: no step of a run changes or removes
\* what audit_history.log holds, and a log_to_history that succeeds adds
\* exactly one entry, that of this run, after the entries already there.
C3_AppendOnly ==
    [][ /\ historyLog # None =>
              (historyLog' # None /\ IsPrefix(historyLog[1], historyLog'[1]))
        /\ (pc = "log_write" /\ logRet' = "True") =>
              EntryStamps(historyLog'[1]) = EntryStamps(historyLog[1]) \o <<Timestamp(runs)>>
      ]_vars

\* Two runs have logged after an earlier entry: three entries, in run order.
C3_Witness ==
    /\ runs = 2
    /\ logRet = "True"
    /\ Len(logged) = 2
    /\ logAtStart = Some(OldLog)
    /\ EntryStamps(historyLog[1]) = <<"0", "1", "2">>
    /\ IsPrefix(OldLog \o logged[1], historyLog[1])

\* C4: when load_file fails (the file does not exist, or reading raises),
\* run() returns False having called nothing but load_file, and leaves
\* audit_report.txt and audit_history.log as they were.
C4_LoadFailureShortCircuits ==
    [][ /\ (pc = "idle" /\ runs' = runs + 1 /\ srcFile = None) => loadRet' = "False"
        /\ loadRet' = "False" =>
              /\ pc' = "idle"
              /\ runRet' = "False"
              /\ calls' = <<"load_file">>
              /\ reportFile' = reportFile
              /\ historyLog' = historyLog
      ]_vars

\* The second run fails to load and the files of the first run are there.
C4_Witness ==
    /\ runs = 2
    /\ loadRet = "False"
    /\ runRet = "False"
    /\ reportFile # None /\ reportFile # Some(OldReport)
    /\ historyLog # None /\ logged # <<>>

\* The count a report gives after a label of its summary (the summary is the
\* last lines of the report), -1 when there is none.
ReportedCount(text, label) ==
    LET ls == Lines(text)
        at == {i \in 1..Len(ls) : i > Len(ls) - 6 /\ Len(ls[i]) = 2 /\ ls[i][1] = label}
        nums == {n \in 0..9 : \E i \in at : ls[i][2] = ToString(n)}
    IN  IF Cardinality(at) = 1 /\ Cardinality(nums) = 1 THEN CHOOSE n \in nums : TRUE ELSE -1

\* C5: in every report generate_report has written, each of the four summary
\* counts is the number of results with that status, and the four counts sum
\* to the number of configured categories, 4.
C5_SummaryCounts ==
    reportRet = "True" =>
        /\ reportFile # None
        /\ \A status \in Statuses :
              ReportedCount(reportFile[1], "  " \o status \o ": ") = NumWithStatus(status)
        /\ ReportedCount(reportFile[1], "  MATCH: ")
           + ReportedCount(reportFile[1], "  MISMATCH: ")
           + ReportedCount(reportFile[1], "  CRITICAL WARNING: ")
           + ReportedCount(reportFile[1], "  DATA MISSING: ") = 4
        /\ Len(Categories) = 4

\* A report of the documentation's example: 2 matches, 1 mismatch, 1 critical.
C5_Witness ==
    /\ reportRet = "True"
    /\ NumWithStatus("MATCH") = 2
    /\ NumWithStatus("MISMATCH") = 1
    /\ NumWithStatus("CRITICAL WARNING") = 1
    /\ ReportedCount(reportFile[1], "  CRITICAL WARNING: ") = 1

\* C6 as claimed: from the call of generate_report on, audit_report.txt holds
\* the complete prior report or the complete new one.
C6_AtomicReport ==
    (Len(calls) >= 3 /\ calls[3] = "generate_report") =>
        reportFile \in {reportBefore, Some(report_content(results))}

\* C6 as amended: generate_report overwrites the report in place.  Once it has
\* returned True the file holds the complete new report; between the open and
\* the write the file is empty; after it has returned False the file holds the
\* prior report untouched (the open failed) or a prefix of the new report.
C6_OverwriteInPlace ==
    (Len(calls) >= 3 /\ calls[3] = "generate_report") =>
        /\ reportRet = "True" => reportFile = Some(report_content(results))
        /\ pc = "report_write" => reportFile = Some(<<>>)
        /\ reportRet = "False" =>
              \/ reportFile = reportBefore
              \/ reportFile # None /\ IsPrefix(reportFile[1], report_content(results))

\* A write that failed part-way over a prior report: half of the new report.
C6_Witness ==
    /\ reportRet = "False"
    /\ reportBefore = Some(OldReport)
    /\ reportFile # None
    /\ reportFile[1] # <<>>
    /\ reportFile # reportBefore
    /\ reportFile # Some(report_content(results))

AllCalls == <<"load_file", "audit", "generate_report", "log_to_history">>

\* C7: once load_file has succeeded, run() calls log_to_history after
\* generate_report whatever generate_report returned, and returns True
\* whatever the two returned.
C7_WriteFailuresNonFatal ==
    /\ (loadRet = "True" /\ pc = "idle") =>
          /\ calls = AllCalls
          /\ reportRet \in {"True", "False"}
          /\ logRet \in {"True", "False"}
          /\ runRet = "True"
    /\ (loadRet = "True" /\ reportRet \in {"True", "False"}) =>
          \/ pc = "log" /\ calls = SubSeq(AllCalls, 1, 3)
          \/ pc \in {"log_write", "idle"} /\ calls = AllCalls
    /\ (loadRet = "True" /\ pc # "idle") => runRet = "none"

\* Both the report and the log failed, and run() has returned True.
C7_Witness ==
    /\ pc = "idle"
    /\ loadRet = "True"
    /\ reportRet = "False"
    /\ logRet = "False"
    /\ runRet = "True"
    /\ calls = AllCalls

\* The entry the last successful log_to_history added, as it stands at the end
\* of the history log.
LastEntryLines ==
    LET text == historyLog[1]
        n == Len(logged[Len(logged)])
    IN  Lines(SubSeq(text, Len(text) - n + 1, Len(text)))

\* C8: the entry log_to_history writes holds the line "Mismatches Found: None"
\* exactly once when no result is a MISMATCH or a CRITICAL WARNING and not at
\* all otherwise; with critical warnings and no plain mismatch it holds no
\* "Mismatches Found" line of either kind.
C8_NoMismatchLine ==
    logRet = "True" =>
        LET entry == LastEntryLines
            none == {i \in 1..Len(entry) : entry[i] = <<"Mismatches Found: None">>}
            counted == {i \in 1..Len(entry) :
                           Len(entry[i]) = 2 /\ entry[i][1] = "Mismatches Found: "}
        IN  /\ Cardinality(none) =
                  IF NumWithStatus("MISMATCH") = 0 /\ NumWithStatus("CRITICAL WARNING") = 0
                  THEN 1 ELSE 0
            /\ NumWithStatus("MISMATCH") = 0 => counted = {}

\* An entry with a critical warning and no plain mismatch.
C8_Witness ==
    /\ logRet = "True"
    /\ NumWithStatus("CRITICAL WARNING") = 1
    /\ NumWithStatus("MISMATCH") = 0
    /\ \E i \in 1..Len(LastEntryLines) :
          LastEntryLines[i][1] = "<warning sign>  CRITICAL WARNINGS: "

\* The number of banner lines of a history log.
BannerCount(text) ==
    Cardinality({i \in 1..Len(Lines(text)) : Lines(text)[i] = <<"AUDIT HISTORY LOG">>})

\* C9: log_to_history writes the banner exactly when the log does not exist
\* when it is called.  As long as no log_to_history has failed, a log that did
\* not exist before the first run holds the banner once, at its start, then
\* one entry per log_to_history, in order; a log that existed holds what it
\* held, then the entries, with no banner added.
C9_BannerOnce ==
    (~logFailed /\ pc # "log_write") =>
        /\ historyLog =
              IF logAtStart = None
              THEN IF logged = <<>> THEN None ELSE Some(Banner \o Concat(logged))
              ELSE Some(logAtStart[1] \o Concat(logged))
        /\ (logAtStart = None /\ logged # <<>>) =>
              /\ BannerCount(historyLog[1]) = 1
              /\ Len(EntryStamps(historyLog[1])) = Len(logged)
        /\ logAtStart # None => BannerCount(historyLog[1]) = BannerCount(logAtStart[1])

\* Two runs have logged to a log that did not exist.
C9_Witness ==
    /\ ~logFailed
    /\ pc = "idle"
    /\ logAtStart = None
    /\ Len(logged) = 2
    /\ EntryStamps(historyLog[1]) = <<"1", "2">>

\* The directory of the documentation's example: exactly two regular files,
\* of 500 and of 2048 bytes, scanned to the end.
ExampleScanned ==
    /\ scanPc = "done"
    /\ directory.exists /\ directory.is_dir
    /\ Cardinality(DOMAIN directory.entries) = 2
    /\ \A n \in DOMAIN directory.entries :
          directory.entries[n].is_file /\ directory.entries[n].stat_ok
    /\ {directory.entries[n].st_size : n \in DOMAIN directory.entries} = {500, 2048}

\* The listing has the files in alphabetical order (case ignored), each with
\* the size its bytes format to, then the total line with the given text.
ExampleListing(total_text) ==
    /\ Len(out) = 6
    /\ \A i \in 1..2 :
          /\ out[i + 2][1] = files[i]
          /\ SubSeq(out[i + 2], 3, Len(out[i + 2])) =
                IF directory.entries[files[i]].st_size = 500
                THEN <<"500", ".", "00", " ", "B">>
                ELSE <<"2", ".", "00", " ", "KB">>
    /\ LowerRank(NameLower(files[1])) < LowerRank(NameLower(files[2]))
    /\ out[5] = <<"Total:", " ">> \o total_text
    /\ out[6] = <<"Total files: ", "2">>

\* C10 as claimed: the total of the example is "2.44 KB".
C10_ExampleTotal244 == ExampleScanned => ExampleListing(<<"2", ".", "44", " ", "KB">>)

\* C10 as amended: a scan of a folder holding exactly a 500-byte and a
\* 2048-byte file lists them alphabetically with the sizes "500.00 B" and
\* "2.00 KB", and the total of the 2548 bytes is "2.49 KB".
C10_ExampleTotal249 ==
    ExampleScanned =>
        /\ total_size = 2548
        /\ ExampleListing(<<"2", ".", "49", " ", "KB">>)

\* The example with the larger file first in the alphabet and an upper-case
\* name second.
C10_Witness ==
    /\ ExampleScanned
    /\ files = <<"a.bin", "B.txt">>
    /\ directory.entries["a.bin"].st_size = 2048

====
